---------------------------- MODULE Spec2Model ----------------------------
(***************************************************************************)
(* UnifiedDebugSolver (src/unified-debug-agent/unified_debug_solver.py).   *)
(*                                                                         *)
(* One orchestrator instance with its conversation_history, and the        *)
(* coroutines running debug_repository_issue on it.  A coroutine takes one *)
(* step from one suspension point (an awaited collaborator call) to the    *)
(* next; the statements between two awaits are also cut at the loop head   *)
(* of the unit loop, which touches no shared state.  Collaborators are     *)
(* black boxes: each call either raises or returns one of a small set of   *)
(* payloads.  Timestamps are modelled by their presence.                   *)
(*                                                                         *)
(* Spec is debug_repository_issue with its history; SpecIndex is           *)
(* index_repository; SpecSplit is _analyze_and_separate_bugs on texts,     *)
(* character by character.                                                 *)
(***************************************************************************)
EXTENDS Integers, Sequences, FiniteSets, TLC

\* Bounds of the model.
MaxBugs == 2          \* most bug units one report splits into
MaxInvocations == 2   \* debug_repository_issue calls over the whole run

\* Coroutine slots of the caller.
Procs == {1, 2}

Absent == 0 - 1       \* a dict key that is not set (numeric fields)
NoError == "none"     \* no "error" key
NoResult == [kind |-> "none", serializable |-> TRUE]

VARIABLES
    conversation_history,  \* self.conversation_history (projection of each record)
    invocations,           \* number of debug_repository_issue calls so far
    pc,                    \* where each coroutine is
    prior,                 \* invocations made before this coroutine's call
    workflow_state,        \* the workflow_state dict of each call
    bugs,                  \* the list bugs of each call (each unit by its length)
    i,                     \* loop index of the unit loop
    results,               \* the local list results
    bug_result,            \* the bug_result dict of the unit in the pipeline
    fix_result,            \* the local fix_result of the unit in the pipeline
    index_call,            \* each index_repository call: where it is, what it returns
    report,                \* the text handed to the splitter on its own
    separated              \* what the splitter made of report

\* The variables of index_repository, and of the splitter taken alone.
index_vars == <<index_call>>
split_vars == <<report, separated>>

vars == <<conversation_history, invocations, pc, prior, workflow_state, bugs,
          i, results, bug_result, fix_result, index_vars, split_vars>>

-----------------------------------------------------------------------------
\* Inputs and collaborator outcomes.

\* str(e) of what a collaborator raises.
CollaboratorErrors == {"timeout", "connection refused"}
JSONDecodeError == "Expecting value"
AttributeError == "object has no attribute"
TypeError == "not JSON serializable"

\* A fragment of 10 characters or fewer is dropped by the splitter.
MinBugLength == 10

\* bug_description: a non-string (None), or a report.  A report is given by
\* the trimmed lengths of the fragments the splitter's rule cuts it into
\* (one fragment, the whole trimmed text, when no rule applies); lengths on
\* both sides of the length filter are drawn.
FragmentLengths == {MinBugLength, MinBugLength + 1}
NotAString == [is_str |-> FALSE, fragments |-> <<>>]
BugDescriptions ==
    {NotAString} \cup
    {[is_str |-> TRUE, fragments |-> f] :
        f \in UNION {[1..n -> FragmentLengths] : n \in 0..MaxBugs}}

\* What locate_bug_in_repository returns: a string that is not JSON, JSON
\* that is no object, an object without search_stats, or an object with
\* search_stats.total_found.
LocateStr(json, has_stats, total_found) ==
    [kind |-> "locate", json |-> json, has_stats |-> has_stats,
     total_found |-> total_found, serializable |-> TRUE]
LocatorResults ==
    { LocateStr("invalid", FALSE, 0), LocateStr("list", FALSE, 0),
      LocateStr("dict", FALSE, 0), LocateStr("dict", TRUE, 0),
      LocateStr("dict", TRUE, 2) }

\* What generate_fix returns: a payload json.dumps can or cannot serialize.
FixResults == {[kind |-> "fix", serializable |-> s] : s \in BOOLEAN}

\* What request_approval returns: a dict with or without "approved", or
\* something that is no dict.
ReviewDict(has_approved, approved) ==
    [kind |-> "review", dict |-> TRUE, has_approved |-> has_approved,
     approved |-> approved, serializable |-> TRUE]
ReviewResults ==
    { ReviewDict(TRUE, TRUE), ReviewDict(TRUE, FALSE), ReviewDict(FALSE, FALSE),
      [kind |-> "review", dict |-> FALSE, has_approved |-> FALSE,
       approved |-> FALSE, serializable |-> TRUE] }

\* What apply_patch returns.
PatchResults == {[kind |-> "patch", serializable |-> TRUE]}

\* What RepoIndexerTool.index_repository returns: a dict by its keys, or
\* something that is no dict; json.dumps can or cannot serialize it.
ImportError == "No module named repo_indexer"
IndexerDict(keys, success, serializable) ==
    [kind |-> "index", dict |-> TRUE, keys |-> keys, success |-> success,
     serializable |-> serializable]
IndexerResults ==
    { IndexerDict({"indexed_files", "collection"}, "absent", TRUE),
      IndexerDict({"indexed_files", "collection"}, "absent", FALSE),
      IndexerDict({"success", "result", "timestamp"}, "true", TRUE),
      IndexerDict({"success", "result"}, "true", TRUE),
      IndexerDict({"success", "error"}, "false", TRUE),
      [kind |-> "index", dict |-> FALSE, keys |-> {}, success |-> "absent",
       serializable |-> TRUE] }

Raises(e) == [raised |-> TRUE, error |-> e, value |-> NoResult]
Returns(v) == [raised |-> FALSE, error |-> NoError, value |-> v]
Outcomes(values) ==
    {Raises(e) : e \in CollaboratorErrors} \cup {Returns(v) : v \in values}


-----------------------------------------------------------------------------
\* Records.

\* A step dict as created at the top of every _call_*_tool: step_name,
\* start_time, status in_progress; no end_time, result or error yet.
NewStep(name) ==
    [step_name |-> name, status |-> "in_progress", end_time |-> FALSE,
     result |-> NoResult, error |-> NoError]

FailedStepWithoutEndTime(step, e) ==
    [step EXCEPT !.status = "failed", !.error = e]

\* The success branch of a _call_*_tool.
CompletedStep(step, result) ==
    [step EXCEPT !.status = "completed", !.end_time = TRUE, !.result = result]

\* The except branch of a _call_*_tool (the exception is then re-raised).
FailedStep(step, e) ==
    [step EXCEPT !.status = "failed", !.error = e, !.end_time = TRUE]

\* record["steps"].append(step)
AppendStep(record, step) == [record EXCEPT !.steps = Append(@, step)]

SetLastStepDropsEarlier(record, step) == [record EXCEPT !.steps = <<step>>]

\* step is an alias of the last element of record["steps"]: an assignment to
\* step shows in the record.
LastStep(record) == record.steps[Len(record.steps)]
SetLastStep(record, step) == [record EXCEPT !.steps[Len(record.steps)] = step]

\* The bug_result dict a pipeline starts with.
NewBugResult(bug_index) ==
    [bug_index |-> bug_index, steps |-> <<>>, status |-> "in_progress",
     error |-> NoError]

\* No unit is in the pipeline.
NoBug == [bug_index |-> 0, steps |-> <<>>, status |-> "none", error |-> NoError]

\* The workflow id is the session id plus this counter.
WorkflowCounter(history) == Len(history)

\* The workflow_state dict debug_repository_issue starts with.  The keys
\* total_bugs, bugs_processed, results, error and end_time are not set.
NewWorkflowState(counter, bug_description, auto_edit_mode) ==
    [workflow_id |-> counter, bug_description |-> bug_description,
     auto_edit_mode |-> auto_edit_mode, steps |-> <<>>,
     status |-> "in_progress", tools_used |-> <<>>,
     total_bugs |-> Absent, bugs_processed |-> Absent,
     has_results |-> FALSE, results |-> <<>>,
     error |-> NoError, end_time |-> FALSE]

\* A coroutine slot that runs no call.
NoWorkflow ==
    [workflow_id |-> Absent, bug_description |-> NotAString,
     auto_edit_mode |-> FALSE, steps |-> <<>>,
     status |-> "none", tools_used |-> <<>>,
     total_bugs |-> Absent, bugs_processed |-> Absent,
     has_results |-> FALSE, results |-> <<>>,
     error |-> NoError, end_time |-> FALSE]

\* What the history shows of a record it holds.
HistoryEntry(ws) == [workflow_id |-> ws.workflow_id, status |-> ws.status]

-----------------------------------------------------------------------------
\* debug_repository_issue and its helpers.

\* bugs = [bug for bug in bugs if len(bug.strip()) > 10]
LongEnough(length) == length > MinBugLength
FilterShort(fragments) == SelectSeq(fragments, LongEnough)

AnalyzeAndSeparateBugsSwallows(bug_description, ws) ==
    LET kept == FilterShort(bug_description.fragments)
    IN  [raised |-> FALSE, error |-> NoError, bugs |-> kept,
         ws |-> AppendStep(ws,
                   [step_name |-> "bug_analysis",
                    status |-> IF bug_description.is_str THEN "completed" ELSE "failed",
                    end_time |-> TRUE,
                    error |-> IF bug_description.is_str THEN NoError ELSE AttributeError,
                    bugs_detected |-> IF bug_description.is_str THEN Len(kept) ELSE Absent])]

\* _analyze_and_separate_bugs: the bug_analysis step is appended; strip() of
\* a non-string raises inside the try, the step is marked failed and the
\* exception re-raised; otherwise the fragments are filtered and the step
\* is completed with bugs_detected.
AnalyzeAndSeparateBugs(bug_description, ws) ==
    LET step == [step_name |-> "bug_analysis", status |-> "in_progress",
                 end_time |-> FALSE, error |-> NoError,
                 bugs_detected |-> Absent]
        kept == FilterShort(bug_description.fragments)
    IN  IF ~bug_description.is_str
        THEN [raised |-> TRUE, error |-> AttributeError, bugs |-> <<>>,
              ws |-> AppendStep(ws, [step EXCEPT !.status = "failed",
                                                 !.error = AttributeError,
                                                 !.end_time = TRUE])]
        ELSE [raised |-> FALSE, error |-> NoError, bugs |-> kept,
              ws |-> AppendStep(ws, [step EXCEPT !.status = "completed",
                                                 !.end_time = TRUE,
                                                 !.bugs_detected = Len(kept)])]

\* localization_result.get("search_stats", {}).get("total_found", 0):
\* .get on a value that is no dict raises AttributeError.
TotalFound(localization_result) ==
    IF localization_result.json # "dict"
    THEN [raised |-> TRUE, value |-> 0]
    ELSE [raised |-> FALSE,
          value |-> IF localization_result.has_stats
                    THEN localization_result.total_found ELSE 0]

\* if total_found > 0
FoundRelevantCodeOrZero(total_found) == total_found >= 0
FoundRelevantCode(total_found) == total_found > 0

\* if not auto_edit_mode
NeedsReviewNever(auto_edit_mode) == FALSE
NeedsReviewAlways(auto_edit_mode) == TRUE
NeedsReviewInverted(auto_edit_mode) == auto_edit_mode
NeedsReview(auto_edit_mode) == ~auto_edit_mode

\* review_result.get("approved", False)
ApprovedByDefault(review_result) ==
    IF ~review_result.dict
    THEN [raised |-> TRUE, value |-> FALSE]
    ELSE [raised |-> FALSE,
          value |-> IF review_result.has_approved
                    THEN review_result.approved ELSE TRUE]
Approved(review_result) ==
    IF ~review_result.dict
    THEN [raised |-> TRUE, value |-> FALSE]
    ELSE [raised |-> FALSE,
          value |-> IF review_result.has_approved
                    THEN review_result.approved ELSE FALSE]

\* The except branch of _process_bug_with_tools.
FailedBugStillInProgress(bug_result_, e) == [bug_result_ EXCEPT !.error = e]
FailedBugWithoutError(bug_result_, e) == [bug_result_ EXCEPT !.status = "failed"]
FailedBug(bug_result_, e) ==
    [bug_result_ EXCEPT !.status = "failed", !.error = e]

ToolsUsedOnce(tools_used, tool) ==
    IF \E k \in 1..Len(tools_used) : tools_used[k] = tool
    THEN tools_used ELSE Append(tools_used, tool)

\* workflow_state["tools_used"].append(tool), after the call has returned.
ToolsUsed(tools_used, tool) == Append(tools_used, tool)

\* workflow_state["bugs_processed"] = i
BugsProcessed(ws, index) == [ws EXCEPT !.bugs_processed = index]

\* Step 3 of debug_repository_issue: status, end_time, results.
Finalized(ws, results_) ==
    [ws EXCEPT !.status = "completed", !.end_time = TRUE,
               !.has_results = TRUE, !.results = results_]

\* The except branch of debug_repository_issue.
WorkflowFailed(ws, e) ==
    [ws EXCEPT !.status = "failed", !.error = e, !.end_time = TRUE]

\* json.dumps(workflow_state) raises TypeError on a step result it cannot
\* serialize; the locator's result is stored as the string it came as.
JsonSerializable(ws) ==
    \A k \in 1..Len(ws.results) :
        \A s \in 1..Len(ws.results[k].steps) :
            ws.results[k].steps[s].result.serializable


-----------------------------------------------------------------------------
\* The state machine.

InitWorkflow ==
    /\ conversation_history = <<>>
    /\ invocations = 0
    /\ pc = [p \in Procs |-> "idle"]
    /\ prior = [p \in Procs |-> 0]
    /\ workflow_state = [p \in Procs |-> NoWorkflow]
    /\ bugs = [p \in Procs |-> <<>>]
    /\ i = [p \in Procs |-> 0]
    /\ results = [p \in Procs |-> <<>>]
    /\ bug_result = [p \in Procs |-> NoBug]
    /\ fix_result = [p \in Procs |-> NoResult]

\* An index_repository call that has not started, and a splitter that has
\* not run.
NoIndexCall ==
    [pc |-> "idle", failure |-> NoError,
     returned |-> Returns([object |-> FALSE, keys |-> {}, success |-> "absent",
                           error |-> NoError])]
NotSeparated == [done |-> FALSE, raised |-> FALSE, bugs |-> <<>>]

\* No index_repository call is under way, and no text has been handed to
\* the splitter on its own.
Init ==
    /\ InitWorkflow
    /\ index_call = [p \in Procs |-> NoIndexCall]
    /\ report = [is_str |-> TRUE, text |-> <<>>]
    /\ separated = NotSeparated

\* The caller runs one workflow at a time, in its lowest free slot.
CallerMayInvoke(p) ==
    /\ \A q \in Procs : pc[q] = "idle"
    /\ \A q \in Procs : q >= p

\* debug_repository_issue is called: the workflow id is taken from the
\* history's length and workflow_state is initialised.
Invoke(p) ==
    /\ CallerMayInvoke(p)
    /\ invocations < MaxInvocations
    /\ \E bug_description \in BugDescriptions, auto_edit_mode \in BOOLEAN :
          workflow_state' = [workflow_state EXCEPT ![p] =
              NewWorkflowState(WorkflowCounter(conversation_history),
                               bug_description, auto_edit_mode)]
    /\ prior' = [prior EXCEPT ![p] = invocations]
    /\ invocations' = invocations + 1
    /\ pc' = [pc EXCEPT ![p] = "analyze"]
    /\ UNCHANGED <<conversation_history, bugs, i, results, bug_result, fix_result>>
    /\ UNCHANGED <<index_vars, split_vars>>

\* return json.dumps(workflow_state): the record is returned, or json.dumps
\* raises out of debug_repository_issue.
ReturnRecord(p, ws) ==
    /\ workflow_state' = [workflow_state EXCEPT ![p] = ws]
    /\ pc' = [pc EXCEPT ![p] = IF JsonSerializable(ws) THEN "returned" ELSE "raised"]

\* Step 1: the report is split; an exception of the splitter reaches the
\* except branch of debug_repository_issue.
Analyze(p) ==
    /\ pc[p] = "analyze"
    /\ LET r == AnalyzeAndSeparateBugs(workflow_state[p].bug_description,
                                       workflow_state[p])
       IN  IF r.raised
           THEN /\ ReturnRecord(p, WorkflowFailed(r.ws, r.error))
                /\ UNCHANGED bugs
           ELSE /\ workflow_state' = [workflow_state EXCEPT ![p] =
                       [r.ws EXCEPT !.total_bugs = Len(r.bugs)]]
                /\ bugs' = [bugs EXCEPT ![p] = r.bugs]
                /\ pc' = [pc EXCEPT ![p] = "loop"]
    /\ UNCHANGED <<conversation_history, invocations, prior, i, results,
                   bug_result, fix_result>>
    /\ UNCHANGED <<index_vars, split_vars>>

CallToolOnASharedRecord(p, bug_result_, tools_used, step_name, fix) ==
    /\ bug_result' = [bug_result EXCEPT ![p] =
                          AppendStep(bug_result_, NewStep(step_name))]
    /\ workflow_state' = [q \in Procs |->
                              [workflow_state[q] EXCEPT !.tools_used = tools_used]]
    /\ fix_result' = [fix_result EXCEPT ![p] = fix]
    /\ pc' = [pc EXCEPT ![p] = step_name]
    /\ UNCHANGED results

\* The pipeline goes on to its next collaborator call: the call's step is
\* appended in_progress and the coroutine is suspended on the call.
CallTool(p, bug_result_, tools_used, step_name, fix) ==
    /\ bug_result' = [bug_result EXCEPT ![p] =
                          AppendStep(bug_result_, NewStep(step_name))]
    /\ workflow_state' = [workflow_state EXCEPT ![p].tools_used = tools_used]
    /\ fix_result' = [fix_result EXCEPT ![p] = fix]
    /\ pc' = [pc EXCEPT ![p] = step_name]
    /\ UNCHANGED results

\* _process_bug_with_tools returns bug_result: it is appended to results
\* and bugs_processed is set.
PipelineReturns(p, bug_result_, tools_used) ==
    /\ results' = [results EXCEPT ![p] = Append(@, bug_result_)]
    /\ workflow_state' = [workflow_state EXCEPT ![p] =
           BugsProcessed([@ EXCEPT !.tools_used = tools_used], i[p])]
    /\ bug_result' = [bug_result EXCEPT ![p] = NoBug]
    /\ fix_result' = [fix_result EXCEPT ![p] = NoResult]
    /\ pc' = [pc EXCEPT ![p] = "loop"]

\* The next iteration of the unit loop: a new bug_result, and the locator
\* is called.
StartBug(p) ==
    /\ pc[p] = "loop"
    /\ i[p] < Len(bugs[p])
    /\ i' = [i EXCEPT ![p] = @ + 1]
    /\ CallTool(p, NewBugResult(i[p] + 1), workflow_state[p].tools_used,
                "bug_localization", NoResult)
    /\ UNCHANGED <<conversation_history, invocations, prior, bugs>>
    /\ UNCHANGED <<index_vars, split_vars>>

ToolRaisedRetry(p, e) ==
    CallTool(p, SetLastStep(bug_result[p], FailedStep(LastStep(bug_result[p]), e)),
             workflow_state[p].tools_used, pc[p], fix_result[p])

\* The collaborator's exception: the step is marked failed and the
\* exception reaches the except branch of the pipeline.
ToolRaised(p, e) ==
    PipelineReturns(p, FailedBug(SetLastStep(bug_result[p],
                                             FailedStep(LastStep(bug_result[p]), e)), e),
                    workflow_state[p].tools_used)

\* locate_bug_in_repository returns or raises.
LocateReturns(p) ==
    /\ pc[p] = "bug_localization"
    /\ \E out \in Outcomes(LocatorResults) :
          IF out.raised THEN ToolRaised(p, out.error)
          ELSE IF out.value.json = "invalid" THEN ToolRaised(p, JSONDecodeError)
          ELSE LET done == SetLastStep(bug_result[p],
                               CompletedStep(LastStep(bug_result[p]), out.value))
                   tools == ToolsUsed(workflow_state[p].tools_used, "bug_locator_tool")
                   total_found == TotalFound(out.value)
               IN  IF total_found.raised
                   THEN PipelineReturns(p, FailedBug(done, AttributeError), tools)
                   ELSE IF FoundRelevantCode(total_found.value)
                   THEN CallTool(p, done, tools, "code_fix_generation", NoResult)
                   ELSE PipelineReturns(p,
                            [done EXCEPT !.status = "no_relevant_code_found"], tools)
    /\ UNCHANGED <<conversation_history, invocations, prior, bugs, i>>
    /\ UNCHANGED <<index_vars, split_vars>>

\* generate_fix returns or raises.
FixReturns(p) ==
    /\ pc[p] = "code_fix_generation"
    /\ \E out \in Outcomes(FixResults) :
          IF out.raised THEN ToolRaised(p, out.error)
          ELSE LET done == SetLastStep(bug_result[p],
                               CompletedStep(LastStep(bug_result[p]), out.value))
                   tools == ToolsUsed(workflow_state[p].tools_used, "codestral_tool")
               IN  IF NeedsReview(workflow_state[p].auto_edit_mode)
                   THEN CallTool(p, done, tools, "human_review", out.value)
                   ELSE CallTool(p, done, tools, "patch_application", out.value)
    /\ UNCHANGED <<conversation_history, invocations, prior, bugs, i>>
    /\ UNCHANGED <<index_vars, split_vars>>

\* request_approval returns or raises.
ReviewReturns(p) ==
    /\ pc[p] = "human_review"
    /\ \E out \in Outcomes(ReviewResults) :
          IF out.raised THEN ToolRaised(p, out.error)
          ELSE LET done == SetLastStep(bug_result[p],
                               CompletedStep(LastStep(bug_result[p]), out.value))
                   tools == ToolsUsed(workflow_state[p].tools_used, "human_review_tool")
                   approved == Approved(out.value)
               IN  IF approved.raised
                   THEN PipelineReturns(p, FailedBug(done, AttributeError), tools)
                   ELSE IF ~approved.value
                   THEN PipelineReturns(p,
                            [done EXCEPT !.status = "rejected_by_human"], tools)
                   ELSE CallTool(p, done, tools, "patch_application", fix_result[p])
    /\ UNCHANGED <<conversation_history, invocations, prior, bugs, i>>
    /\ UNCHANGED <<index_vars, split_vars>>

\* apply_patch returns or raises.
PatchReturns(p) ==
    /\ pc[p] = "patch_application"
    /\ \E out \in Outcomes(PatchResults) :
          IF out.raised THEN ToolRaised(p, out.error)
          ELSE LET done == SetLastStep(bug_result[p],
                               CompletedStep(LastStep(bug_result[p]), out.value))
                   tools == ToolsUsed(workflow_state[p].tools_used, "git_patch_tool")
               IN  PipelineReturns(p, [done EXCEPT !.status = "completed"], tools)
    /\ UNCHANGED <<conversation_history, invocations, prior, bugs, i>>
    /\ UNCHANGED <<index_vars, split_vars>>

\* Step 3, after the last unit: the record is finalised and appended to the
\* history, then serialised.  If json.dumps raises, the except branch marks
\* the record (the one the history holds) failed and serialises it again.
Finalize(p) ==
    /\ pc[p] = "loop"
    /\ i[p] = Len(bugs[p])
    /\ LET ws == Finalized(workflow_state[p], results[p])
           history == Append(conversation_history, HistoryEntry(ws))
           failed == WorkflowFailed(ws, TypeError)
       IN  IF JsonSerializable(ws)
           THEN /\ ReturnRecord(p, ws)
                /\ conversation_history' = history
           ELSE /\ ReturnRecord(p, failed)
                /\ conversation_history' =
                       [history EXCEPT ![Len(history)] = HistoryEntry(failed)]
    /\ UNCHANGED <<invocations, prior, bugs, i, results, bug_result, fix_result>>
    /\ UNCHANGED <<index_vars, split_vars>>

\* The caller has the result (or the exception) and the coroutine is gone.
Release(p) ==
    /\ pc[p] \in {"returned", "raised"}
    /\ pc' = [pc EXCEPT ![p] = "idle"]
    /\ prior' = [prior EXCEPT ![p] = 0]
    /\ workflow_state' = [workflow_state EXCEPT ![p] = NoWorkflow]
    /\ bugs' = [bugs EXCEPT ![p] = <<>>]
    /\ i' = [i EXCEPT ![p] = 0]
    /\ results' = [results EXCEPT ![p] = <<>>]
    /\ UNCHANGED <<conversation_history, invocations, bug_result, fix_result>>
    /\ UNCHANGED <<index_vars, split_vars>>

\* get_conversation_history returns the list and changes nothing.
GetConversationHistory == UNCHANGED vars

\* clear_conversation_history
ClearConversationHistory ==
    /\ conversation_history' = <<>>
    /\ UNCHANGED <<invocations, pc, prior, workflow_state, bugs, i, results,
                   bug_result, fix_result>>
    /\ UNCHANGED <<index_vars, split_vars>>

Next ==
    \/ \E p \in Procs : Invoke(p)
    \/ \E p \in Procs : Analyze(p)
    \/ \E p \in Procs : StartBug(p)
    \/ \E p \in Procs : LocateReturns(p)
    \/ \E p \in Procs : FixReturns(p)
    \/ \E p \in Procs : ReviewReturns(p)
    \/ \E p \in Procs : PatchReturns(p)
    \/ \E p \in Procs : Finalize(p)
    \/ \E p \in Procs : Release(p)
    \/ GetConversationHistory
    \/ ClearConversationHistory

Spec == Init /\ [][Next]_vars

\* The event loop resumes a coroutine that can run, and every awaited
\* collaborator call returns or raises: no coroutine stays suspended for ever.
Resume(p) ==
    \/ Analyze(p)
    \/ StartBug(p)
    \/ LocateReturns(p)
    \/ FixReturns(p)
    \/ ReviewReturns(p)
    \/ PatchReturns(p)
    \/ Finalize(p)

SpecLive == Init /\ [][Next]_vars /\ \A p \in Procs : WF_vars(Resume(p))


-----------------------------------------------------------------------------
\* Calls that overlap on one instance.

\* A coroutine runs from one await of a collaborator to the next without
\* interruption: p may take a step only when no other coroutine is between
\* two such awaits.
MayRun(p) == \A q \in Procs \ {p} : pc[q] \notin {"analyze", "loop"}

\* The reports of overlapping calls: texts of one unit, so that every call
\* has a pipeline to run and is suspended on its collaborators.
ConcurrentBugDescriptions ==
    {d \in BugDescriptions :
        /\ d.is_str
        /\ Len(d.fragments) = 1
        /\ LongEnough(d.fragments[1])}

\* debug_repository_issue is called while other calls may be suspended on a
\* collaborator.
InvokeConcurrently(p) ==
    /\ pc[p] = "idle"
    /\ invocations < MaxInvocations
    /\ \E bug_description \in ConcurrentBugDescriptions, auto_edit_mode \in BOOLEAN :
          workflow_state' = [workflow_state EXCEPT ![p] =
              NewWorkflowState(WorkflowCounter(conversation_history),
                               bug_description, auto_edit_mode)]
    /\ prior' = [prior EXCEPT ![p] = invocations]
    /\ invocations' = invocations + 1
    /\ pc' = [pc EXCEPT ![p] = "analyze"]
    /\ UNCHANGED <<conversation_history, bugs, i, results, bug_result, fix_result>>
    /\ UNCHANGED <<index_vars, split_vars>>

NextConcurrent ==
    \/ \E p \in Procs : MayRun(p) /\ InvokeConcurrently(p)
    \/ \E p \in Procs : MayRun(p) /\ Analyze(p)
    \/ \E p \in Procs : MayRun(p) /\ StartBug(p)
    \/ \E p \in Procs : MayRun(p) /\ LocateReturns(p)
    \/ \E p \in Procs : MayRun(p) /\ FixReturns(p)
    \/ \E p \in Procs : MayRun(p) /\ ReviewReturns(p)
    \/ \E p \in Procs : MayRun(p) /\ PatchReturns(p)
    \/ \E p \in Procs : MayRun(p) /\ Finalize(p)
    \/ \E p \in Procs : MayRun(p) /\ Release(p)

SpecConcurrent == Init /\ [][NextConcurrent]_vars


-----------------------------------------------------------------------------
\* index_repository.

\* The text json.dumps(value) makes, by what json.loads reads back from it:
\* an object with the keys of the dict, or a value that is no object.
JsonDumps(value) ==
    [object |-> value.dict, keys |-> value.keys, success |-> value.success,
     error |-> NoError]

\* json.dumps(error_result): success False, error str(e), timestamp.
ErrorResult(e) ==
    [object |-> TRUE, keys |-> {"success", "error", "timestamp"},
     success |-> "false", error |-> e]

\* What went wrong inside the try block, if anything: the import or the
\* indexer raised, or json.dumps could not serialize the indexer's result.
IndexerFailure(outcome) ==
    IF outcome.raised THEN outcome.error
    ELSE IF ~outcome.value.serializable THEN TypeError
    ELSE NoError

IndexRepositoryDumpsOutsideTry(outcome) ==
    IF outcome.raised THEN Returns(ErrorResult(outcome.error))
    ELSE IF ~outcome.value.serializable THEN Raises(TypeError)
    ELSE Returns(JsonDumps(outcome.value))

\* The body of index_repository from what its try block meets: every
\* Exception, json.dumps's included, ends in the except branch, which
\* returns the serialized error_result.
IndexRepository(outcome) ==
    IF IndexerFailure(outcome) # NoError
    THEN Returns(ErrorResult(IndexerFailure(outcome)))
    ELSE Returns(JsonDumps(outcome.value))

\* index_repository leaves with what IndexRepository makes of the outcome.
IndexLeaves(p, outcome) ==
    index_call' = [index_call EXCEPT ![p] =
        [pc |-> IF IndexRepository(outcome).raised THEN "raised" ELSE "returned",
         failure |-> IndexerFailure(outcome),
         returned |-> IndexRepository(outcome)]]

\* index_repository is called: the indexer is imported and constructed, and
\* its index_repository is awaited; a failed import returns at once.
IndexCall(p) ==
    /\ index_call[p].pc = "idle"
    /\ \/ index_call' = [index_call EXCEPT ![p].pc = "indexing"]
       \/ IndexLeaves(p, Raises(ImportError))
    /\ UNCHANGED <<conversation_history, invocations, pc, prior, workflow_state,
                   bugs, i, results, bug_result, fix_result, split_vars>>

\* The indexer raises or returns, and index_repository returns.
IndexReturns(p) ==
    /\ index_call[p].pc = "indexing"
    /\ \E outcome \in Outcomes(IndexerResults) : IndexLeaves(p, outcome)
    /\ UNCHANGED <<conversation_history, invocations, pc, prior, workflow_state,
                   bugs, i, results, bug_result, fix_result, split_vars>>

\* The caller has the value (or the exception) and may call again.
IndexRelease(p) ==
    /\ index_call[p].pc \in {"returned", "raised"}
    /\ index_call' = [index_call EXCEPT ![p] = NoIndexCall]
    /\ UNCHANGED <<conversation_history, invocations, pc, prior, workflow_state,
                   bugs, i, results, bug_result, fix_result, split_vars>>

NextIndex ==
    \/ \E p \in Procs : IndexCall(p)
    \/ \E p \in Procs : IndexReturns(p)
    \/ \E p \in Procs : IndexRelease(p)

SpecIndex == Init /\ [][NextIndex]_vars


-----------------------------------------------------------------------------
\* The splitter on text: _analyze_and_separate_bugs, character by character.
\* A text is a sequence of characters; the bullet character U+2022 is
\* written "U+2022".

WhiteSpace == {" ", "\n", "\t"}
Digits == {"0", "1", "2", "3", "4", "5", "6", "7", "8", "9"}
BulletChars == {"-", "*", "U+2022"}
UpperCase ==
    <<"A", "B", "C", "D", "E", "F", "G", "H", "I", "J", "K", "L", "M",
      "N", "O", "P", "Q", "R", "S", "T", "U", "V", "W", "X", "Y", "Z">>
LowerCase ==
    <<"a", "b", "c", "d", "e", "f", "g", "h", "i", "j", "k", "l", "m",
      "n", "o", "p", "q", "r", "s", "t", "u", "v", "w", "x", "y", "z">>

\* separators, as listed in the code.
separators ==
    << <<" ", "a", "n", "d", " ">>,
       <<" ", "a", "l", "s", "o", " ">>,
       <<" ", "a", "d", "d", "i", "t", "i", "o", "n", "a", "l", "l", "y", " ">>,
       <<" ", "f", "u", "r", "t", "h", "e", "r", "m", "o", "r", "e", " ">>,
       <<"1", ".">>, <<"2", ".">>, <<"3", ".">>, <<"4", ".">>, <<"5", ".">>,
       <<"-", " ">>, <<"*", " ">>, <<"U+2022", " ">> >>

\* Texts the reports are made of: a sentence holding " and ", sentences of
\* 11 and of 10 characters, a sentence with a hyphen inside a word, and
\* markers, separators and white space.
SearchIsSlowAndExportFails ==
    <<"S", "e", "a", "r", "c", "h", " ", "i", "s", " ", "s", "l", "o", "w",
      " ", "a", "n", "d", " ", "e", "x", "p", "o", "r", "t", " ", "f", "a",
      "i", "l", "s">>
LoginFails ==
    <<"L", "o", "g", "i", "n", " ", "f", "a", "i", "l", "s">>
SaveFails ==
    <<"S", "a", "v", "e", " ", "f", "a", "i", "l", "s">>
AutoSaveIsLost ==
    <<"A", "u", "t", "o", "-", "s", "a", "v", "e", " ", "i", "s", " ", "l",
      "o", "s", "t">>
Pieces ==
    { SearchIsSlowAndExportFails, LoginFails, SaveFails, AutoSaveIsLost,
      separators[1], separators[2], separators[5], separators[9],
      separators[10], <<" ">>, <<"\n">> }

\* Most pieces one report is made of.
MaxPieces == 3

RECURSIVE Concat(_)
Concat(pieces) ==
    IF pieces = <<>> THEN <<>> ELSE Head(pieces) \o Concat(Tail(pieces))

\* bug_description handed to the splitter: None, or a text.
Reports ==
    {[is_str |-> FALSE, text |-> <<>>]} \cup
    {[is_str |-> TRUE, text |-> Concat(pieces)] :
        pieces \in UNION {[1..n -> Pieces] : n \in 0..MaxPieces}}

\* str.lower()
LowerChar(c) ==
    IF \E k \in 1..Len(UpperCase) : UpperCase[k] = c
    THEN LowerCase[CHOOSE k \in 1..Len(UpperCase) : UpperCase[k] = c]
    ELSE c
Lower(text) == [k \in 1..Len(text) |-> LowerChar(text[k])]

\* str.strip()
Strip(text) ==
    LET first == CHOOSE k \in 1..(Len(text) + 1) :
                    /\ k = Len(text) + 1 \/ text[k] \notin WhiteSpace
                    /\ \A h \in 1..(k - 1) : text[h] \in WhiteSpace
        last == CHOOSE k \in 0..Len(text) :
                    /\ k = 0 \/ text[k] \notin WhiteSpace
                    /\ \A h \in (k + 1)..Len(text) : text[h] \in WhiteSpace
    IN  SubSeq(text, first, last)

\* sep in text, and the first place where it is (0 if nowhere).
Occurs(text, sep, k) ==
    k + Len(sep) - 1 <= Len(text) /\ SubSeq(text, k, k + Len(sep) - 1) = sep
Contains(text, sep) == \E k \in 1..Len(text) : Occurs(text, sep, k)
Find(text, sep) ==
    LET found == {k \in 1..Len(text) : Occurs(text, sep, k)}
    IN  IF found = {} THEN 0 ELSE CHOOSE k \in found : \A j \in found : k <= j

\* str.split(sep)
RECURSIVE Split(_, _)
Split(text, sep) ==
    LET k == Find(text, sep)
    IN  IF k = 0 THEN <<text>>
        ELSE <<SubSeq(text, 1, k - 1)>> \o
             Split(SubSeq(text, k + Len(sep), Len(text)), sep)

\* The first position from k on that holds no character of class (one past
\* the end if there is none).
RunEnd(text, k, class) ==
    CHOOSE j \in k..(Len(text) + 1) :
        /\ j = Len(text) + 1 \/ text[j] \notin class
        /\ \A h \in k..(j - 1) : text[h] \in class

\* The pattern \n?\s*(?:\d+\.|\s*[-*U+2022]\s*) at position k: one past the
\* end of its match, 0 if it does not match there.  White space is taken
\* greedily, then a run of digits and a '.', or a bullet character and the
\* white space after it, if any.
MatchEnd(text, k) ==
    LET w == RunEnd(text, k, WhiteSpace)
        d == RunEnd(text, w, Digits)
    IN  IF d > w /\ d <= Len(text) /\ text[d] = "." THEN d + 1
        ELSE IF w <= Len(text) /\ text[w] \in BulletChars
             THEN RunEnd(text, w + 1, WhiteSpace)
        ELSE 0

\* The matches re.split cuts at: leftmost first, none overlapping; each by
\* its first position and the position after its last.
RECURSIVE Matches(_, _)
Matches(text, k) ==
    LET end == MatchEnd(text, k)
    IN  IF k > Len(text) THEN <<>>
        ELSE IF end # 0
             THEN <<[from |-> k, to |-> end]>> \o Matches(text, end)
        ELSE Matches(text, k + 1)

\* re.split(pattern, text): the texts between the matches.
ReSplit(text) ==
    LET m == Matches(text, 1)
    IN  [j \in 1..(Len(m) + 1) |->
            SubSeq(text, IF j = 1 THEN 1 ELSE m[j - 1].to,
                         IF j = Len(m) + 1 THEN Len(text) ELSE m[j].from - 1)]

\* [part.strip() for part in parts if part.strip()]
NotBlank(part) == Strip(part) # <<>>
StripParts(parts) ==
    LET kept == SelectSeq(parts, NotBlank)
    IN  [k \in 1..Len(kept) |-> Strip(kept[k])]

\* The checks on current_bug.
HasMultiple(current_bug) ==
    LET lower == Lower(current_bug)
    IN  \E k \in 1..4 : Contains(lower, separators[k])
HasNumbered(current_bug) ==
    \E k \in 5..8 : Contains(current_bug, separators[k])
HasBullets(current_bug) ==
    \E k \in 9..Len(separators) : Contains(current_bug, separators[k])

ConjunctionUsedLast(current_bug) ==
    LET lower == Lower(current_bug)
        found == {k \in 1..4 : Contains(lower, separators[k])}
    IN  separators[CHOOSE k \in found : \A j \in found : k >= j]

\* for sep in separators[:4]: if sep in current_bug.lower(): ... break
ConjunctionUsed(current_bug) ==
    LET lower == Lower(current_bug)
        found == {k \in 1..4 : Contains(lower, separators[k])}
    IN  separators[CHOOSE k \in found : \A j \in found : k <= j]

\* The list bugs before the length filter.
Candidates(text) ==
    LET current_bug == Strip(text)
    IN  IF HasNumbered(current_bug) \/ HasBullets(current_bug)
        THEN StripParts(ReSplit(current_bug))
        ELSE IF HasMultiple(current_bug)
        THEN StripParts(Split(Lower(current_bug), ConjunctionUsed(current_bug)))
        ELSE <<current_bug>>

\* bugs = [bug for bug in bugs if len(bug.strip()) > 10]
KeepBug(bug) == LongEnough(Len(Strip(bug)))

\* The report as debug_repository_issue's model takes it: the trimmed
\* lengths of the candidates.
Described(bug_description) ==
    [is_str |-> bug_description.is_str,
     fragments |-> IF bug_description.is_str
                   THEN LET candidates == Candidates(bug_description.text)
                        IN  [k \in 1..Len(candidates) |->
                                Len(Strip(candidates[k]))]
                   ELSE <<>>]

\* _analyze_and_separate_bugs is run on report with a fresh record.
SeparateBugs ==
    /\ ~separated.done
    /\ LET described == Described(report)
           analysis == AnalyzeAndSeparateBugs(described,
                           NewWorkflowState(0, described, FALSE))
       IN  separated' =
               [done |-> TRUE, raised |-> analysis.raised,
                bugs |-> IF analysis.raised THEN <<>>
                         ELSE SelectSeq(Candidates(report.text), KeepBug)]
    /\ UNCHANGED <<conversation_history, invocations, pc, prior, workflow_state,
                   bugs, i, results, bug_result, fix_result, index_vars, report>>

\* Any report may be handed to the splitter.
InitSplit ==
    /\ InitWorkflow
    /\ index_call = [p \in Procs |-> NoIndexCall]
    /\ report \in Reports
    /\ separated = NotSeparated

NextSplit == SeparateBugs

SpecSplit == InitSplit /\ [][NextSplit]_vars


-----------------------------------------------------------------------------
\* What the claims read.

\* The bug units of p's workflow: those whose pipeline has returned (in the
\* local results and, once finalised, in the record) and the one in the
\* pipeline.
UnitsOf(p) ==
    {results[p][k] : k \in 1..Len(results[p])}
        \cup {workflow_state[p].results[k] : k \in 1..Len(workflow_state[p].results)}
        \cup (IF bug_result[p] = NoBug THEN {} ELSE {bug_result[p]})

StepNames(unit) == [k \in 1..Len(unit.steps) |-> unit.steps[k].step_name]
StepsNamed(unit, name) ==
    {unit.steps[k] : k \in {j \in 1..Len(unit.steps) : unit.steps[j].step_name = name}}
HasStep(unit, name) == StepsNamed(unit, name) # {}
Completed(unit, name) == \E s \in StepsNamed(unit, name) : s.status = "completed"
IsPrefix(s, t) == Len(s) <= Len(t) /\ \A k \in 1..Len(s) : s[k] = t[k]
TerminalStatus ==
    {"completed", "no_relevant_code_found", "rejected_by_human", "failed"}
Active(p) == pc[p] # "idle"

\* C1: with auto_edit_mode false, a unit whose review call succeeded with
\* approved false or with no approved field has status rejected_by_human and
\* no patch_application step.
C1_RejectedIsNeverPatched ==
    \A p \in Procs : ~workflow_state[p].auto_edit_mode =>
        \A u \in UnitsOf(p) :
            (\E s \in StepsNamed(u, "human_review") :
                 /\ s.status = "completed"
                 /\ s.result.dict
                 /\ ~(s.result.has_approved /\ s.result.approved))
            => /\ u.status = "rejected_by_human"
               /\ ~HasStep(u, "patch_application")

C1_Witness ==
    \E p \in Procs :
        /\ pc[p] = "returned"
        /\ ~workflow_state[p].auto_edit_mode
        /\ \E u \in UnitsOf(p) :
              /\ u.status = "rejected_by_human"
              /\ \E s \in StepsNamed(u, "human_review") :
                    s.status = "completed" /\ ~s.result.has_approved

\* C2: with auto_edit_mode true no human_review step is ever appended and
\* the review capability is never called; a unit whose locate (total_found
\* > 0), fix and patch calls all succeeded has status completed.
C2_AutoEditSkipsReview ==
    \A p \in Procs : workflow_state[p].auto_edit_mode =>
        /\ pc[p] # "human_review"
        /\ \A k \in 1..Len(workflow_state[p].tools_used) :
              workflow_state[p].tools_used[k] # "human_review_tool"
        /\ \A u \in UnitsOf(p) :
              /\ ~HasStep(u, "human_review")
              /\ (/\ \E s \in StepsNamed(u, "bug_localization") :
                        s.status = "completed" /\ s.result.total_found > 0
                  /\ Completed(u, "code_fix_generation")
                  /\ Completed(u, "patch_application"))
                 => u.status = "completed"

C2_Witness ==
    \E p \in Procs :
        /\ pc[p] = "returned"
        /\ workflow_state[p].auto_edit_mode
        /\ \E u \in UnitsOf(p) :
              u.status = "completed" /\ Completed(u, "patch_application")

\* C3: a unit whose locate call succeeded with search_stats.total_found = 0
\* has status no_relevant_code_found and its step list holds the
\* bug_localization step alone, in both modes.
C3_NothingFoundStopsThePipeline ==
    \A p \in Procs : \A u \in UnitsOf(p) :
        (\E s \in StepsNamed(u, "bug_localization") :
             /\ s.status = "completed"
             /\ s.result.json = "dict"
             /\ s.result.has_stats
             /\ s.result.total_found = 0)
        => /\ u.status = "no_relevant_code_found"
           /\ StepNames(u) = <<"bug_localization">>

C3_Witness ==
    \E p \in Procs :
        /\ pc[p] = "returned"
        /\ workflow_state[p].auto_edit_mode
        /\ \E u \in UnitsOf(p) :
              /\ u.status = "no_relevant_code_found"
              /\ \E s \in StepsNamed(u, "bug_localization") :
                    s.result.has_stats /\ s.result.total_found = 0

\* C4: a unit one of whose capability calls failed has status failed and
\* the error text of that failure; when the unit loop is over there is one
\* result per detected unit, each with a terminal status that depends on
\* the unit's own steps alone.
C4_FailureIsIsolated ==
    \A p \in Procs :
        /\ \A u \in UnitsOf(p) : \A k \in 1..Len(u.steps) :
              u.steps[k].status = "failed" =>
                  /\ u.status = "failed"
                  /\ u.error = u.steps[k].error
                  /\ u.error \in CollaboratorErrors \cup {JSONDecodeError}
                  /\ k = Len(u.steps)
        /\ workflow_state[p].has_results =>
              /\ Len(workflow_state[p].results) = workflow_state[p].total_bugs
              /\ \A k \in 1..Len(workflow_state[p].results) :
                    workflow_state[p].results[k].status \in TerminalStatus
              /\ \A j, k \in 1..Len(workflow_state[p].results) :
                    workflow_state[p].results[j].steps
                        = workflow_state[p].results[k].steps
                    => /\ workflow_state[p].results[j].status
                           = workflow_state[p].results[k].status
                       /\ workflow_state[p].results[j].error
                           = workflow_state[p].results[k].error

C4_Witness ==
    \E p \in Procs :
        /\ pc[p] = "returned"
        /\ Len(workflow_state[p].results) = 2
        /\ workflow_state[p].results[1].status = "failed"
        /\ workflow_state[p].results[1].error = "timeout"
        /\ workflow_state[p].results[1].steps[1].status = "failed"
        /\ workflow_state[p].results[2].status = "completed"

\* The canonical stage order.
CanonicalOrder ==
    <<"bug_localization", "code_fix_generation", "human_review",
      "patch_application">>

\* The stages a pipeline runs through in each mode.
StageOrder(auto_edit_mode) ==
    IF auto_edit_mode
    THEN <<"bug_localization", "code_fix_generation", "patch_application">>
    ELSE CanonicalOrder

\* C5, as claimed: every unit's step names are a prefix of the canonical
\* stage order, in both modes.
C5_PrefixOfCanonicalOrder ==
    \A p \in Procs : \A u \in UnitsOf(p) : IsPrefix(StepNames(u), CanonicalOrder)

\* C5, amended: every unit's step names are a prefix of the canonical stage
\* order when auto_edit_mode is false, and of that order without
\* human_review when auto_edit_mode is true.
C5_PrefixOfModeOrder ==
    \A p \in Procs : \A u \in UnitsOf(p) :
        IsPrefix(StepNames(u), StageOrder(workflow_state[p].auto_edit_mode))

C5_Witness ==
    \E p \in Procs :
        /\ workflow_state[p].auto_edit_mode
        /\ \E u \in UnitsOf(p) :
              StepNames(u) = <<"bug_localization", "code_fix_generation",
                               "patch_application">>


\* C6, as claimed: debug_repository_issue never propagates an exception; a
\* workflow that fails outside the per-unit handling has status failed, an
\* error text and an end_time, and its record is returned.
C6_NeverPropagates ==
    \A p \in Procs :
        /\ pc[p] # "raised"
        /\ workflow_state[p].status = "failed" =>
              /\ pc[p] = "returned"
              /\ workflow_state[p].error # NoError
              /\ workflow_state[p].end_time

\* C7, as claimed: the counter of a workflow's id is the number of
\* debug_repository_issue calls made before it on the instance (so it grows
\* by one from each call to the next), whatever reads and clears of the
\* history come between.
C7_CounterIsPriorInvocations ==
    \A p \in Procs : Active(p) => workflow_state[p].workflow_id = prior[p]

\* C8, as claimed: when debug_repository_issue returns a record, completed
\* or failed, the history holds it as its last entry; and a step that is
\* no clear leaves the entries the history had, in their order.
C8_HistoryRetainsEveryReturnedRecord ==
    [][/\ \A p \in Procs :
             (pc[p] # "returned" /\ pc'[p] = "returned") =>
                 /\ Len(conversation_history') = Len(conversation_history) + 1
                 /\ conversation_history'[Len(conversation_history')]
                        = HistoryEntry(workflow_state'[p])
       /\ \/ conversation_history' = <<>>
          \/ IsPrefix(conversation_history, conversation_history')]_vars

\* C9, as claimed: a record returned after a successful split into n units
\* has total_bugs = n, bugs_processed = n, n results with bug_index 1..n in
\* order, and status completed.
C9_ReturnedRecordCountsEveryUnit ==
    \A p \in Procs :
        (pc[p] = "returned" /\ workflow_state[p].total_bugs # Absent) =>
            /\ workflow_state[p].total_bugs = Len(bugs[p])
            /\ workflow_state[p].bugs_processed = workflow_state[p].total_bugs
            /\ workflow_state[p].has_results
            /\ Len(workflow_state[p].results) = workflow_state[p].total_bugs
            /\ \A k \in 1..Len(workflow_state[p].results) :
                  /\ workflow_state[p].results[k].bug_index = k
                  /\ workflow_state[p].results[k].status \in TerminalStatus
            /\ workflow_state[p].status = "completed"

\* C10: at most one capability call of a workflow is outstanding (one step
\* in_progress, the last step of the unit in the pipeline), and units run
\* in detection order: while unit k+1 is in the pipeline, units 1..k are in
\* results, in order, each with a terminal status and no step in_progress.
C10_OneCallAtATimeInOrder ==
    \A p \in Procs :
        /\ \A k \in 1..Len(results[p]) :
              /\ results[p][k].bug_index = k
              /\ results[p][k].status \in TerminalStatus
              /\ \A j \in 1..Len(results[p][k].steps) :
                    results[p][k].steps[j].status # "in_progress"
        /\ bug_result[p] # NoBug =>
              /\ bug_result[p].bug_index = Len(results[p]) + 1
              /\ \A j \in 1..Len(bug_result[p].steps) :
                    bug_result[p].steps[j].status = "in_progress"
                    => /\ j = Len(bug_result[p].steps)
                       /\ pc[p] = bug_result[p].steps[j].step_name
        /\ pc[p] \in {CanonicalOrder[k] : k \in 1..Len(CanonicalOrder)} =>
              /\ bug_result[p] # NoBug
              /\ LastStep(bug_result[p]).step_name = pc[p]
              /\ LastStep(bug_result[p]).status = "in_progress"

C10_Witness ==
    \E p \in Procs :
        /\ Len(results[p]) = 1
        /\ results[p][1].status = "rejected_by_human"
        /\ pc[p] = "code_fix_generation"
        /\ bug_result[p].bug_index = 2


\* C11: index_repository never raises past its boundary, and whenever the
\* import, the indexer or the serialization of its result failed, what it
\* returns is the failure object: success false, the text of that failure,
\* and a timestamp.
C11_IndexFailureIsReturned ==
    \A p \in Procs :
        /\ index_call[p].pc # "raised"
        /\ (index_call[p].pc = "returned" /\ index_call[p].failure # NoError) =>
              /\ ~index_call[p].returned.raised
              /\ index_call[p].returned.value =
                     [object |-> TRUE, keys |-> {"success", "error", "timestamp"},
                      success |-> "false", error |-> index_call[p].failure]

\* Both a result that json.dumps could not serialize and a failed import
\* have come back as failure objects.
C11_Witness ==
    /\ index_call[1].pc = "returned"
    /\ index_call[1].failure = TypeError
    /\ index_call[1].returned.value.error = TypeError
    /\ index_call[2].pc = "returned"
    /\ index_call[2].failure = ImportError

\* C12: every value index_repository returns is an object with the fields
\* success and timestamp and with result or error.
C12_ReturnedValueHasTheEnvelope ==
    \A p \in Procs :
        index_call[p].pc = "returned" =>
            /\ index_call[p].returned.value.object
            /\ {"success", "timestamp"} \subseteq index_call[p].returned.value.keys
            /\ {"result", "error"} \cap index_call[p].returned.value.keys # {}

\* The trimmed text the splitter works on.
CurrentBug == Strip(report.text)

\* C13: for every input string, the empty one, white space only and texts
\* of 10 characters or fewer included, the splitter returns a sequence that
\* is not empty.
C13_NeverEmpty ==
    (separated.done /\ report.is_str) =>
        /\ ~separated.raised
        /\ separated.bugs # <<>>

\* C14: a text with no numbered marker, no bullet marker and no conjunction
\* separator comes back as exactly one unit, the trimmed text in its
\* original casing.
C14_PlainTextIsOneUnit ==
    ( /\ separated.done
      /\ report.is_str
      /\ ~HasNumbered(CurrentBug)
      /\ ~HasBullets(CurrentBug)
      /\ ~HasMultiple(CurrentBug) ) =>
        separated.bugs = <<CurrentBug>>

\* C15: when the text holds a numbered or a bullet marker, a bullet
\* character that is not followed by white space (a hyphen inside a word)
\* is not a cut point.
C15_HyphenInsideAWordIsNoCut ==
    ( /\ separated.done
      /\ report.is_str
      /\ HasNumbered(CurrentBug) \/ HasBullets(CurrentBug) ) =>
        \A k \in 1..(Len(CurrentBug) - 1) :
            (CurrentBug[k] \in BulletChars /\ CurrentBug[k + 1] \notin WhiteSpace) =>
                \A j \in 1..Len(Matches(CurrentBug, 1)) :
                    ~( Matches(CurrentBug, 1)[j].from <= k
                       /\ k < Matches(CurrentBug, 1)[j].to )

RECURSIVE Join(_, _)
Join(parts, sep) ==
    IF Len(parts) = 1 THEN parts[1]
    ELSE parts[1] \o sep \o Join(Tail(parts), sep)

LongerThanTen(bug) == Len(bug) > 10
SearchIsSlow ==
    <<"s", "e", "a", "r", "c", "h", " ", "i", "s", " ", "s", "l", "o", "w">>
ExportFails ==
    <<"e", "x", "p", "o", "r", "t", " ", "f", "a", "i", "l", "s">>

\* C16: a text with no numbered or bullet marker whose lower-cased form
\* holds a conjunction separator is split, lower-cased, on the first
\* separator of " and ", " also ", " additionally ", " furthermore " that it
\* holds, and on no other; the trimmed pieces longer than 10 characters come
\* back in order.  "Search is slow and export fails" gives two units.
C16_FirstConjunctionSplits ==
    /\ ( /\ separated.done
         /\ report.is_str
         /\ ~HasNumbered(CurrentBug)
         /\ ~HasBullets(CurrentBug)
         /\ HasMultiple(CurrentBug) ) =>
            LET lower == Lower(CurrentBug)
                first == CHOOSE k \in 1..4 :
                            /\ Contains(lower, separators[k])
                            /\ \A j \in 1..(k - 1) : ~Contains(lower, separators[j])
                parts == Split(lower, separators[first])
            IN  /\ Join(parts, separators[first]) = lower
                /\ \A j \in 1..Len(parts) : ~Contains(parts[j], separators[first])
                /\ separated.bugs = SelectSeq(StripParts(parts), LongerThanTen)
    /\ (separated.done /\ report.text = SearchIsSlowAndExportFails) =>
            separated.bugs = <<SearchIsSlow, ExportFails>>

\* The example, which holds " and ", has been split into its two units.
C16_Witness ==
    /\ separated.done
    /\ report.is_str
    /\ separated.bugs = <<SearchIsSlow, ExportFails>>
    /\ Contains(Lower(CurrentBug), separators[1])

\* The units of p's workflow in the order their pipelines ran: those that
\* have returned, then the one in the pipeline.
UnitSeq(p) ==
    results[p] \o (IF bug_result[p] = NoBug THEN <<>> ELSE <<bug_result[p]>>)

\* P holds of every unit of p's workflow (the units of UnitsOf, one by one).
EveryUnit(p, P(_)) ==
    /\ \A k \in 1..Len(results[p]) : P(results[p][k])
    /\ \A k \in 1..Len(workflow_state[p].results) : P(workflow_state[p].results[k])
    /\ bug_result[p] # NoBug => P(bug_result[p])

\* The capability a step belongs to, by the name the code appends.
ToolOf(step_name) ==
    CASE step_name = "bug_localization" -> "bug_locator_tool"
      [] step_name = "code_fix_generation" -> "codestral_tool"
      [] step_name = "human_review" -> "human_review_tool"
      [] step_name = "patch_application" -> "git_patch_tool"

StepCompleted(step) == step.status = "completed"
SucceededCalls(unit) ==
    LET succeeded == SelectSeq(unit.steps, StepCompleted)
    IN  [k \in 1..Len(succeeded) |-> ToolOf(succeeded[k].step_name)]

RECURSIVE SucceededCallsOfAll(_)
SucceededCallsOfAll(units) ==
    IF units = <<>> THEN <<>>
    ELSE SucceededCalls(Head(units)) \o SucceededCallsOfAll(Tail(units))

\* C17: at every point tools_used is the sequence of the names of the
\* capability calls that have succeeded so far, in call order across all
\* units, duplicates kept; a failed call has appended nothing.
C17_ToolsUsedIsTheSucceededCalls ==
    \A p \in Procs :
        workflow_state[p].tools_used = SucceededCallsOfAll(UnitSeq(p))

\* The locator has succeeded for two units (its name is there twice) and a
\* call of the second unit has failed.
C17_Witness ==
    \E p \in Procs :
        /\ Len(results[p]) = 2
        /\ Cardinality({k \in 1..Len(workflow_state[p].tools_used) :
               workflow_state[p].tools_used[k] = "bug_locator_tool"}) = 2
        /\ \E k \in 1..Len(results[p][2].steps) :
               results[p][2].steps[k].status = "failed"

ToolSteps ==
    {"bug_localization", "code_fix_generation", "human_review", "patch_application"}

\* The kind of payload each capability returns.
ResultOf(step_name) ==
    CASE step_name = "bug_localization" -> "locate"
      [] step_name = "code_fix_generation" -> "fix"
      [] step_name = "human_review" -> "review"
      [] step_name = "patch_application" -> "patch"

\* A step of a capability call is in_progress only while the call is
\* pending; afterwards it has its end_time and is completed with the
\* capability's result, or failed with the error text, the unit having
\* failed with that error at that step.
StepRecordIsSettled(p, unit, k) ==
    LET step == unit.steps[k]
    IN  /\ step.step_name \in ToolSteps
        /\ step.status \in {"in_progress", "completed", "failed"}
        /\ step.status = "in_progress" =>
              /\ unit = bug_result[p]
              /\ k = Len(unit.steps)
              /\ pc[p] = step.step_name
              /\ ~step.end_time
        /\ step.status = "completed" =>
              /\ step.end_time
              /\ step.result.kind = ResultOf(step.step_name)
              /\ step.error = NoError
        /\ step.status = "failed" =>
              /\ step.end_time
              /\ step.error # NoError
              /\ step.result = NoResult
              /\ k = Len(unit.steps)
              /\ unit.status = "failed"
              /\ unit.error = step.error

\* When a capability call begins, exactly one step, in_progress and named
\* after the call, has been appended to the unit's steps; when a call is
\* over, no step is added or removed by that.
OneStepPerCall(p) ==
    /\ (pc'[p] \in ToolSteps /\ bug_result'[p] # bug_result[p]) =>
          /\ Len(bug_result'[p].steps) = Len(bug_result[p].steps) + 1
          /\ LastStep(bug_result'[p]) = NewStep(pc'[p])
          /\ StepNames(bug_result'[p]) = Append(StepNames(bug_result[p]), pc'[p])
    /\ (pc[p] \in ToolSteps /\ pc'[p] \notin ToolSteps) =>
          /\ Len(results'[p]) = Len(results[p]) + 1
          /\ StepNames(results'[p][Len(results'[p])]) = StepNames(bug_result[p])

\* C18: every capability call appends exactly one step record before the
\* call; once the call has returned or failed the record has its end_time
\* and is completed with the result or failed with the error text, and a
\* failure has reached the pipeline (the unit is failed with that error).
C18_OneSettledStepPerCall ==
    /\ [](\A p \in Procs :
              LET Holds(u) == \A k \in 1..Len(u.steps) : StepRecordIsSettled(p, u, k)
              IN  EveryUnit(p, Holds))
    /\ [][\A p \in Procs : OneStepPerCall(p)]_vars

\* A call has failed and one has succeeded in the same unit, and a call of
\* the next unit is pending.
C18_Witness ==
    \E p \in Procs :
        /\ pc[p] = "bug_localization"
        /\ Len(results[p]) = 1
        /\ StepNames(results[p][1]) = <<"bug_localization", "code_fix_generation">>
        /\ results[p][1].steps[1].status = "completed"
        /\ results[p][1].steps[2].status = "failed"
        /\ LastStep(bug_result[p]).status = "in_progress"

\* A unit with a patch_application step has what the patch call requires.
PatchHasItsPreconditions(auto_edit_mode, u) ==
    HasStep(u, "patch_application") =>
        /\ \E s \in StepsNamed(u, "bug_localization") :
              /\ s.status = "completed"
              /\ s.result.json = "dict"
              /\ s.result.has_stats
              /\ s.result.total_found > 0
        /\ Completed(u, "code_fix_generation")
        /\ \/ auto_edit_mode
           \/ \E s \in StepsNamed(u, "human_review") :
                 /\ s.status = "completed"
                 /\ s.result.dict
                 /\ s.result.has_approved
                 /\ s.result.approved

\* C19: a unit has a patch_application step only if its bug_localization
\* step completed with total_found > 0, its code_fix_generation step
\* completed, and auto_edit_mode is true or its human_review step completed
\* with approved true.
C19_PatchOnlyAfterItsPreconditions ==
    \A p \in Procs :
        LET Holds(u) == PatchHasItsPreconditions(workflow_state[p].auto_edit_mode, u)
        IN  EveryUnit(p, Holds)

\* A patch is being applied after an approving review.
C19_Witness ==
    \E p \in Procs :
        /\ ~workflow_state[p].auto_edit_mode
        /\ pc[p] = "patch_application"
        /\ HasStep(bug_result[p], "patch_application")
        /\ Completed(bug_result[p], "human_review")

\* C20: within one unit each capability is invoked at most once, and after
\* a call has failed no further call is made for that unit.
C20_AtMostOnceAndNoneAfterAFailure ==
    \A p \in Procs :
        /\ LET Holds(u) ==
                   /\ \A j, k \in 1..Len(u.steps) :
                         u.steps[j].step_name = u.steps[k].step_name => j = k
                   /\ \A k \in 1..Len(u.steps) :
                         u.steps[k].status = "failed" =>
                             /\ k = Len(u.steps)
                             /\ u # bug_result[p]
           IN  EveryUnit(p, Holds)
        /\ pc[p] \in ToolSteps =>
              \A k \in 1..Len(bug_result[p].steps) :
                  bug_result[p].steps[k].status # "failed"

\* The fix call of a unit has failed after its locate call, the unit has
\* left the pipeline with these two steps, and the workflow has gone on.
C20_Witness ==
    \E p \in Procs :
        /\ pc[p] = "returned"
        /\ \E u \in UnitsOf(p) :
              /\ StepNames(u) = <<"bug_localization", "code_fix_generation">>
              /\ u.steps[2].status = "failed"
              /\ u.status = "failed"

\* The record debug_repository_issue has returned is finished: completed or
\* failed, with its end_time, every unit terminal and no step in_progress.
ReturnedRecordIsFinished(p) ==
    /\ workflow_state[p].status \in {"completed", "failed"}
    /\ workflow_state[p].end_time
    /\ \A k \in 1..Len(workflow_state[p].steps) :
          workflow_state[p].steps[k].status # "in_progress"
    /\ \A k \in 1..Len(workflow_state[p].results) :
          /\ workflow_state[p].results[k].status \in TerminalStatus
          /\ \A j \in 1..Len(workflow_state[p].results[k].steps) :
                workflow_state[p].results[k].steps[j].status # "in_progress"

\* C21: every invocation eventually returns, every collaborator call
\* returning or failing, and the record it returns is finished.
C21_EveryInvocationReturnsAFinishedRecord ==
    /\ \A p \in Procs : \A n \in 0..(MaxInvocations - 1) :
          (pc[p] = "analyze" /\ prior[p] = n)
              ~> (pc[p] = "returned" /\ prior[p] = n)
    /\ [](\A p \in Procs : pc[p] = "returned" => ReturnedRecordIsFinished(p))

\* C22: if splitting raises, the bug_analysis step is failed with the error
\* text, the workflow's status is failed, and no unit pipeline runs: no
\* capability call is made and tools_used stays empty.
C22_SplitFailureAbortsTheWorkflow ==
    \A p \in Procs :
        (pc[p] \notin {"idle", "analyze"} /\ ~workflow_state[p].bug_description.is_str) =>
            /\ pc[p] \in {"returned", "raised"}
            /\ workflow_state[p].status = "failed"
            /\ workflow_state[p].error = AttributeError
            /\ Len(workflow_state[p].steps) = 1
            /\ workflow_state[p].steps[1].step_name = "bug_analysis"
            /\ workflow_state[p].steps[1].status = "failed"
            /\ workflow_state[p].steps[1].error = AttributeError
            /\ workflow_state[p].steps[1].end_time
            /\ workflow_state[p].tools_used = <<>>
            /\ UnitSeq(p) = <<>>
            /\ workflow_state[p].results = <<>>

\* A workflow whose report is no string has come back failed.
C22_Witness ==
    \E p \in Procs :
        /\ pc[p] = "returned"
        /\ ~workflow_state[p].bug_description.is_str
        /\ workflow_state[p].status = "failed"
        /\ workflow_state[p].steps[1].status = "failed"

\* new is old with steps appended, if any: no step is gone or has moved, a
\* completed or failed step is as it was, and a step that was in_progress
\* is still the step of the same call.
StepsExtend(old, new) ==
    /\ Len(old) <= Len(new)
    /\ \A k \in 1..Len(old) :
          /\ new[k].step_name = old[k].step_name
          /\ old[k].status # "in_progress" => new[k] = old[k]

\* The steps of p's workflow that are in_progress, each by where it is.
InProgressSteps(p) ==
    {<<"workflow", 0, k>> : k \in {j \in 1..Len(workflow_state[p].steps) :
        workflow_state[p].steps[j].status = "in_progress"}}
    \cup {<<"pipeline", 0, k>> : k \in {j \in 1..Len(bug_result[p].steps) :
        bug_result[p].steps[j].status = "in_progress"}}
    \cup UNION {{<<"results", u, k>> : k \in {j \in 1..Len(results[p][u].steps) :
        results[p][u].steps[j].status = "in_progress"}} : u \in 1..Len(results[p])}

\* What one step of the program may do to the step lists of p's workflow,
\* from its invocation to its return.
StepListsOnlyGrow(p) ==
    (pc[p] # "idle" /\ pc'[p] # "idle") =>
        /\ StepsExtend(workflow_state[p].steps, workflow_state'[p].steps)
        /\ Len(results[p]) <= Len(results'[p])
        /\ \A k \in 1..Len(results[p]) : results'[p][k] = results[p][k]
        /\ (bug_result[p] # NoBug /\ bug_result'[p] # NoBug) =>
              /\ bug_result'[p].bug_index = bug_result[p].bug_index
              /\ StepsExtend(bug_result[p].steps, bug_result'[p].steps)
        /\ (bug_result[p] # NoBug /\ bug_result'[p] = NoBug) =>
              /\ Len(results'[p]) = Len(results[p]) + 1
              /\ results'[p][Len(results'[p])].bug_index = bug_result[p].bug_index
              /\ StepsExtend(bug_result[p].steps,
                             results'[p][Len(results'[p])].steps)
        /\ workflow_state'[p].results \in {workflow_state[p].results, results[p]}

\* C23: step lists are append-only and a completed or failed step is
\* frozen: no later action of the workflow changes it, and no step is ever
\* removed or reordered; at most one step of a workflow is in_progress at
\* any time.
C23_StepListsAreAppendOnly ==
    /\ [](\A p \in Procs : Cardinality(InProgressSteps(p)) <= 1)
    /\ [][\A p \in Procs : StepListsOnlyGrow(p)]_vars

\* The second unit is at its third call, after two settled steps, the
\* first unit having returned with its steps.
C23_Witness ==
    \E p \in Procs :
        /\ pc[p] = "human_review"
        /\ Len(results[p]) = 1
        /\ Len(results[p][1].steps) >= 2
        /\ Len(bug_result[p].steps) = 3
        /\ InProgressSteps(p) = {<<"pipeline", 0, 3>>}

\* What p's call holds is made of p's own units alone: the units are
\* numbered as p ran them, tools_used names the calls that succeeded in
\* them, and the results of the record are p's results.
HoldsOnlyItsOwn(p) ==
    /\ \A k \in 1..Len(UnitSeq(p)) : UnitSeq(p)[k].bug_index = k
    /\ Len(UnitSeq(p)) <= Len(bugs[p])
    /\ workflow_state[p].tools_used = SucceededCallsOfAll(UnitSeq(p))
    /\ workflow_state[p].results \in {<<>>, results[p]}
    /\ pc[p] \in ToolSteps =>
          /\ bug_result[p] # NoBug
          /\ LastStep(bug_result[p]).step_name = pc[p]
    /\ pc[p] \notin ToolSteps => bug_result[p] = NoBug

\* A step that is not p's own leaves everything p's call holds as it is.
NotWrittenByOthers(p) ==
    pc'[p] = pc[p] =>
        /\ workflow_state'[p] = workflow_state[p]
        /\ results'[p] = results[p]
        /\ bug_result'[p] = bug_result[p]
        /\ fix_result'[p] = fix_result[p]
        /\ bugs'[p] = bugs[p]
        /\ i'[p] = i[p]

\* C24: when two calls on the same instance interleave at their
\* collaborator calls, each call's record holds only its own steps,
\* tools_used entries and units, each unit only the steps of its own
\* calls, and nothing of it is written by the other call.
C24_InterleavedCallsShareNoRecord ==
    /\ [](\A p \in Procs : HoldsOnlyItsOwn(p))
    /\ [][\A p \in Procs : NotWrittenByOthers(p)]_vars

\* Both calls are suspended on a collaborator, at different stages and with
\* different tools_used.
C24_Witness ==
    /\ pc[1] = "patch_application"
    /\ pc[2] = "code_fix_generation"
    /\ workflow_state[1].tools_used # workflow_state[2].tools_used
    /\ Len(bug_result[1].steps) = 4
    /\ Len(bug_result[2].steps) = 2

\* C25: when two calls on the same instance interleave, the two workflows
\* have different workflow ids, and the history never holds two records
\* with the same workflow id.
C25_InterleavedCallsHaveDistinctIds ==
    /\ \A p, q \in Procs :
          (p # q /\ Active(p) /\ Active(q)) =>
              workflow_state[p].workflow_id # workflow_state[q].workflow_id
    /\ \A j, k \in 1..Len(conversation_history) :
          conversation_history[j].workflow_id = conversation_history[k].workflow_id
              => j = k

\* The last step of a failed unit is failed, with the unit's error text.
EndsOnAFailedStep(u) ==
    u.status = "failed" =>
        /\ u.steps # <<>>
        /\ LastStep(u).status = "failed"
        /\ LastStep(u).error = u.error

\* C26: whenever a unit's final status is failed, its last step is failed
\* and carries the unit's error text, whatever the collaborators return,
\* payloads without search_stats.total_found or approved included.
C26_FailedUnitEndsOnAFailedStep ==
    \A p \in Procs : EveryUnit(p, EndsOnAFailedStep)

\* C27: if the splitter yields no unit, no capability call is made and the
\* record returned has status completed, total_bugs 0, bugs_processed 0
\* and an empty results list.
C27_NoUnitGivesACompletedEmptyRecord ==
    \A p \in Procs :
        workflow_state[p].total_bugs = 0 =>
            /\ pc[p] \notin ToolSteps
            /\ workflow_state[p].tools_used = <<>>
            /\ pc[p] = "returned" =>
                  /\ workflow_state[p].status = "completed"
                  /\ workflow_state[p].bugs_processed = 0
                  /\ workflow_state[p].has_results
                  /\ workflow_state[p].results = <<>>

=============================================================================








